---- MODULE Spec2Model ----
(***************************************************************************)
(* Steel girder bridge CAD (src/cad.py): the input form BridgeDesignGUI    *)
(* with its overhang/spacing balancer (update_bridge) and the layout       *)
(* arithmetic of the drawing widget BridgeCADWidget (cross-section and     *)
(* top view).                                                              *)
(*                                                                         *)
(* Lengths are millimetres.  The program computes in binary floating       *)
(* point; the model computes in exact rationals <<num, den>> (den > 0,     *)
(* lowest terms), so rounding noise of the order 1e-12 mm is not           *)
(* represented.  A spin box stores its value rounded to its number of      *)
(* decimals: the model stores the value in millimetres, a multiple of the  *)
(* grid of the box.                                                        *)
(***************************************************************************)
EXTENDS Integers, Sequences, FiniteSets, TLC

\* ------------------------------------------------------------------------
\* Exact rational arithmetic standing for the floats of the program.
\* ------------------------------------------------------------------------
Abs(x) == IF x < 0 THEN -x ELSE x

RECURSIVE GCD(_, _)
GCD(a, b) == IF b = 0 THEN a ELSE GCD(b, a % b)

LCM(a, b) == (a \div GCD(a, b)) * b

Norm(n, d) ==
    LET g == GCD(Abs(n), d)
    IN  IF g = 0 THEN <<0, 1>> ELSE <<n \div g, d \div g>>

R(n) == <<n, 1>>

RNeg(a) == <<-a[1], a[2]>>

RAdd(a, b) ==
    LET l == LCM(a[2], b[2])
    IN  Norm(a[1] * (l \div a[2]) + b[1] * (l \div b[2]), l)

RSub(a, b) == RAdd(a, RNeg(b))

RMul(a, b) ==
    LET g1 == GCD(Abs(a[1]), b[2])
        g2 == GCD(Abs(b[1]), a[2])
    IN  IF a[1] = 0 \/ b[1] = 0 THEN <<0, 1>>
        ELSE <<(a[1] \div g1) * (b[1] \div g2), (a[2] \div g2) * (b[2] \div g1)>>

RInv(a) == IF a[1] > 0 THEN <<a[2], a[1]>> ELSE <<-a[2], -a[1]>>

\* a / b for b # 0 (the callers decide what a zero divisor does)
RDiv(a, b) == RMul(a, RInv(b))

RSign(a) == IF a[1] > 0 THEN 1 ELSE IF a[1] < 0 THEN -1 ELSE 0

RLt(a, b) ==
    LET l == LCM(a[2], b[2])
    IN  a[1] * (l \div a[2]) < b[1] * (l \div b[2])

RLe(a, b) == ~RLt(b, a)

RMin(a, b) == IF RLt(b, a) THEN b ELSE a

RMax(a, b) == IF RLt(a, b) THEN b ELSE a

RAbs(a) == <<Abs(a[1]), a[2]>>

\* math.ceil
RCeil(a) == -((-a[1]) \div a[2])

RIsInt(a) == a[2] = 1

\* ------------------------------------------------------------------------
\* Program constants
\* ------------------------------------------------------------------------
MIN_OVERHANG == 300
MAX_OVERHANG == 2000
MIN_SPACING == 1000
MAX_SPACING == 24000
MEDIAN_WIDTH == 1200
CRASH_BARRIER_WIDTH == 500
RAILING_HEIGHT == 1000
RAILING_WIDTH == 100
GIRDERS_MIN == 2
GIRDERS_MAX == 12
GIRDER_DEPTH == 500
FLANGE_WIDTH == 180
RAILING_OUTER_WIDTH_MM == 375
RAILING_HEIGHT_MM == 1100
CRASH_BARRIER_HEIGHT == 800

\* girder_visual_scale: depth 3.0, flange_width 3.75
VISUAL_DEPTH == R(3)
VISUAL_FLANGE_WIDTH == <<15, 4>>

\* stiffener['width'] = 84.9
STIFFENER_WIDTH == <<849, 10>>

\* ranges of the spin boxes, in mm (setRange), and their grids (setDecimals)
SpanRange == <<20000, 45000>>
SpanGrid == 100
CarriagewayRange == <<4250, 24000>>
CarriagewayGrid == 10
SpacingRange == <<1000, 24000>>
SpacingGrid == 10
OverhangRange == <<100, 5000>>
OverhangGrid == 1
BracingRange == <<1000, 45000>>
BracingGrid == 10
FpWidthRange == <<0, 10000>>
FpWidthGrid == 10
ThicknessRange == <<0, 500>>
ThicknessGrid == 1

\* ------------------------------------------------------------------------
\* Spin boxes (QDoubleSpinBox / QSpinBox)
\* ------------------------------------------------------------------------
\* The multiple of the grid g nearest to x.  A value exactly half way
\* between two grid points is rounded from its binary representation in
\* the program, which the rationals do not determine: tieUp chooses.
RoundGrid(x, g, tieUp) ==
    LET q == x[1] \div (x[2] * g)
        lo == q * g
        twiceRem == 2 * (x[1] - lo * x[2])
    IN  IF twiceRem < g * x[2] THEN lo
        ELSE IF twiceRem > g * x[2] THEN lo + g
        ELSE IF tieUp THEN lo + g ELSE lo

\* setValue(x): round to the decimals of the box, then bound to its range
BoxValue(x, range, g, tieUp) ==
    LET r == RoundGrid(x, g, tieUp)
    IN  IF r < range[1] THEN range[1] ELSE IF r > range[2] THEN range[2] ELSE r

\* currentText().lower() of the footpath combo
Lower(text) ==
    CASE text = "None" -> "none"
      [] text = "Left" -> "left"
      [] text = "Right" -> "right"
      [] text = "Both" -> "both"

\* the input widgets as the create_* methods leave them
ConstructedInputs ==
    [ span_input |-> 35000,
      carriageway_input |-> 10500,
      median_combo |-> "No",
      footpath_combo |-> "Both",
      skew_input |-> 0,
      girders_input |-> 4,
      spacing_input |-> 2750,
      deck_overhang_input |-> 1000,
      bracing_spacing_input |-> 3500,
      deck_input |-> 200,
      fp_width_input |-> 1500,
      fp_thick_input |-> 200 ]

\* BridgeCADWidget.__init__: self.params
ConstructedParams ==
    [ span_length |-> 35000,
      num_girders |-> 4,
      girder_spacing |-> R(2750),
      cross_bracing_spacing |-> 3500,
      carriageway_width |-> 10500,
      skew_angle |-> 0,
      deck_thickness |-> 200,
      footpath_width |-> 1500,
      footpath_thickness |-> 200,
      crash_barrier_width |-> 500,
      railing_height |-> 1000,
      footpath_config |-> "both",
      deck_overhang |-> R(1000),
      railing_width |-> 100,
      median_present |-> FALSE,
      median_width |-> 1200 ]

\* update_bridge, first part: the parameters as read from the widgets
ReadParams(w) ==
    [ span_length |-> w.span_input,
      carriageway_width |-> w.carriageway_input,
      skew_angle |-> w.skew_input,
      footpath_config |-> Lower(w.footpath_combo),
      median_present |-> (w.median_combo = "Yes"),
      median_width |-> MEDIAN_WIDTH,
      num_girders |-> w.girders_input,
      girder_spacing |-> R(w.spacing_input),
      cross_bracing_spacing |-> w.bracing_spacing_input,
      crash_barrier_width |-> CRASH_BARRIER_WIDTH,
      deck_thickness |-> w.deck_input,
      deck_overhang |-> R(w.deck_overhang_input),
      footpath_width |-> w.fp_width_input,
      footpath_thickness |-> w.fp_thick_input,
      railing_height |-> RAILING_HEIGHT,
      railing_width |-> RAILING_WIDTH ]

\* ------------------------------------------------------------------------
\* Deck total width
\* ------------------------------------------------------------------------
NumFp(fp_config) ==
    IF fp_config = "both" THEN 2
    ELSE IF fp_config \in {"left", "right"} THEN 1
    ELSE 0

\* BridgeDesignGUI.compute_deck_total_width_mm: <<deck_total, num_fp>>
ComputeDeckTotalWidthMm(p) ==
    LET num_fp == NumFp(p.footpath_config)
    IN  IF p.median_present
        THEN <<p.carriageway_width + p.median_width
                 + 2 * p.crash_barrier_width + num_fp * p.footpath_width, num_fp>>
        ELSE <<p.carriageway_width
                 + 2 * p.crash_barrier_width + num_fp * p.footpath_width, num_fp>>

\* compute_deck_total_width with the railing width added on both sides
ComputeDeckTotalWidth_Railing(p) ==
    LET num_fp == NumFp(p.footpath_config)
    IN  IF p.median_present
        THEN <<p.carriageway_width * 2 + p.median_width + 2 * p.railing_width
                 + 2 * p.crash_barrier_width + num_fp * p.footpath_width, num_fp>>
        ELSE <<p.carriageway_width + 2 * p.railing_width
                 + 2 * p.crash_barrier_width + num_fp * p.footpath_width, num_fp>>

\* compute_deck_total_width counting one carriageway beside the median
ComputeDeckTotalWidth_OneCarriageway(p) ==
    LET num_fp == NumFp(p.footpath_config)
    IN  <<p.carriageway_width + (IF p.median_present THEN p.median_width ELSE 0)
            + 2 * p.crash_barrier_width + num_fp * p.footpath_width, num_fp>>

\* BridgeCADWidget.compute_deck_total_width: <<deck_total, num_fp>>
ComputeDeckTotalWidth(p) ==
    LET num_fp == NumFp(p.footpath_config)
    IN  IF p.median_present
        THEN <<p.carriageway_width * 2 + p.median_width
                 + 2 * p.crash_barrier_width + num_fp * p.footpath_width, num_fp>>
        ELSE <<p.carriageway_width
                 + 2 * p.crash_barrier_width + num_fp * p.footpath_width, num_fp>>

\* ------------------------------------------------------------------------
\* The balancer: the three branches of update_bridge.  A frame f is
\* [p |-> the params dict, w |-> the widgets, notice |-> the message handed
\* to update_status ("none" when the branch sends none)].
\* ------------------------------------------------------------------------
\* ClampSpacing passing the spacing through
ClampSpacing_Unbounded(x) == x

\* max(1000, min(24000, new_spacing))
ClampSpacing(x) == RMax(R(MIN_SPACING), RMin(R(MAX_SPACING), x))

\* ClampOverhang bounded from below only
ClampOverhang_MinOnly(x) == RMax(R(MIN_OVERHANG), x)

\* max(MIN_OVERHANG, min(MAX_OVERHANG, new_overhang))
ClampOverhang(x) == RMax(R(MIN_OVERHANG), RMin(R(MAX_OVERHANG), x))

\* params['girder_spacing'] = x; spacing_input.setValue(x / 1000.0), signals blocked
WriteSpacing(f, x, tieUp) ==
    [f EXCEPT !.p.girder_spacing = x,
              !.w.spacing_input = BoxValue(x, SpacingRange, SpacingGrid, tieUp)]

\* params['deck_overhang'] = x; deck_overhang_input.setValue(x / 1000.0), signals blocked
WriteOverhang(f, x, tieUp) ==
    [f EXCEPT !.p.deck_overhang = x,
              !.w.deck_overhang_input = BoxValue(x, OverhangRange, OverhangGrid, tieUp)]

\* BalanceOverhangEdited committing every recomputed spacing (no 1 mm band)
BalanceOverhangEdited_NoBand(f, deck_total, tieUp) ==
    LET n == f.p.num_girders
        new_spacing ==
            ClampSpacing(RDiv(RSub(R(deck_total), RMul(R(2), f.p.deck_overhang)), R(n - 1)))
    IN  IF n > 1
        THEN [WriteSpacing(f, new_spacing, tieUp) EXCEPT !.notice = "spacing_adjusted"]
        ELSE f

\* _last_changed == 'overhang'
BalanceOverhangEdited(f, deck_total, tieUp) ==
    LET n == f.p.num_girders
        new_spacing ==
            ClampSpacing(RDiv(RSub(R(deck_total), RMul(R(2), f.p.deck_overhang)), R(n - 1)))
    IN  IF n > 1
        THEN IF RLt(R(1), RAbs(RSub(new_spacing, f.p.girder_spacing)))
             THEN [WriteSpacing(f, new_spacing, tieUp) EXCEPT !.notice = "spacing_adjusted"]
             ELSE f
        ELSE f

\* _last_changed == 'spacing'
BalanceSpacingEdited(f, deck_total, tieUp) ==
    LET n == f.p.num_girders
        raw == IF n > 1
               THEN RDiv(RSub(R(deck_total), RMul(f.p.girder_spacing, R(n - 1))), R(2))
               ELSE RDiv(R(deck_total), R(2))
        new_overhang == ClampOverhang(raw)
    IN  IF RLt(R(1), RAbs(RSub(new_overhang, f.p.deck_overhang)))
        THEN [WriteOverhang(f, new_overhang, tieUp) EXCEPT !.notice = "overhang_adjusted"]
        ELSE f

\* PinnedSpacing with the overhang counted on one side only
PinnedSpacing_OneSide(deck_total, n, pinned) ==
    ClampSpacing(RDiv(R(deck_total - pinned), R(n - 1)))

\* the spacing recomputed for a pinned overhang (required overhang out of range)
PinnedSpacing(deck_total, n, pinned) ==
    ClampSpacing(RDiv(R(deck_total - 2 * pinned), R(n - 1)))

\* BalanceOtherEdited without the tests of n > 1: the spacing recomputed
\* and written for one girder as for two
BalanceOtherEdited_NoGirderTest(f, deck_total, tieUp) ==
    LET n == IF f.p.num_girders > 1 THEN f.p.num_girders ELSE 2
        required_overhang ==
            IF f.p.num_girders > 1
            THEN RDiv(RSub(R(deck_total), RMul(f.p.girder_spacing, R(n - 1))), R(2))
            ELSE RDiv(R(deck_total), R(2))
    IN  IF RLt(required_overhang, R(MIN_OVERHANG))
        THEN [WriteOverhang(
                  WriteSpacing(f, PinnedSpacing(deck_total, n, MIN_OVERHANG), tieUp),
                  R(MIN_OVERHANG), tieUp)
                EXCEPT !.notice = "auto_adjusted"]
        ELSE IF RLt(R(MAX_OVERHANG), required_overhang)
        THEN [WriteOverhang(
                  WriteSpacing(f, PinnedSpacing(deck_total, n, MAX_OVERHANG), tieUp),
                  R(MAX_OVERHANG), tieUp)
                EXCEPT !.notice = "auto_adjusted"]
        ELSE IF RLt(R(1), RAbs(RSub(required_overhang, f.p.deck_overhang)))
        THEN WriteOverhang(f, required_overhang, tieUp)
        ELSE f

\* any other field edited (else branch)
BalanceOtherEdited(f, deck_total, tieUp) ==
    LET n == f.p.num_girders
        required_overhang ==
            IF n > 1
            THEN RDiv(RSub(R(deck_total), RMul(f.p.girder_spacing, R(n - 1))), R(2))
            ELSE RDiv(R(deck_total), R(2))
    IN  IF RLt(required_overhang, R(MIN_OVERHANG))
        THEN IF n > 1
             THEN [WriteOverhang(
                       WriteSpacing(f, PinnedSpacing(deck_total, n, MIN_OVERHANG), tieUp),
                       R(MIN_OVERHANG), tieUp)
                     EXCEPT !.notice = "auto_adjusted"]
             ELSE WriteOverhang(f, R(MIN_OVERHANG), tieUp)
        ELSE IF RLt(R(MAX_OVERHANG), required_overhang)
        THEN IF n > 1
             THEN [WriteOverhang(
                       WriteSpacing(f, PinnedSpacing(deck_total, n, MAX_OVERHANG), tieUp),
                       R(MAX_OVERHANG), tieUp)
                     EXCEPT !.notice = "auto_adjusted"]
             ELSE WriteOverhang(f, R(MAX_OVERHANG), tieUp)
        ELSE IF RLt(R(1), RAbs(RSub(required_overhang, f.p.deck_overhang)))
        THEN WriteOverhang(f, required_overhang, tieUp)
        ELSE f

\* ClampBracing passing the bracing spacing through as read
ClampBracing_AsRead(f, tieUp) == f

\* cross_bracing_spacing > span_length: clamp and write back, signals blocked
ClampBracing(f, tieUp) ==
    IF f.p.cross_bracing_spacing > f.p.span_length
    THEN [f EXCEPT !.p.cross_bracing_spacing = f.p.span_length,
                   !.w.bracing_spacing_input =
                       BoxValue(R(f.p.span_length), BracingRange, BracingGrid, tieUp)]
    ELSE f

\* the body of update_bridge between the guard and update_params, for the
\* parameters p as read, the widgets w and the edited-field tag
Balance(p, w, tag, tieUp) ==
    LET f0 == ClampBracing([p |-> p, w |-> w, notice |-> "none"], tieUp)
        deck_total == ComputeDeckTotalWidthMm(f0.p)[1]
    IN  IF tag = "overhang" THEN BalanceOverhangEdited(f0, deck_total, tieUp)
        ELSE IF tag = "spacing" THEN BalanceSpacingEdited(f0, deck_total, tieUp)
        ELSE BalanceOtherEdited(f0, deck_total, tieUp)

\* ------------------------------------------------------------------------
\* Layouts computed by paintEvent
\* ------------------------------------------------------------------------
NoLayout == [view |-> "none"]

\* [first + i * step : i in 0 .. count - 1]
Evenly(first, step, count) ==
    [i \in 1 .. count |-> RAdd(first, RMul(R(i - 1), step))]

\* draw_cross_section: scale, zones and girder positions.  Dividing by a
\* zero deck width raises ZeroDivisionError and ends the paint.
CrossSectionLayout(p, width, height) ==
    LET fp_config == p.footpath_config
        left_fp_width == IF fp_config \in {"left", "both"} THEN p.footpath_width ELSE 0
        right_fp_width == IF fp_config \in {"right", "both"} THEN p.footpath_width ELSE 0
        total_deck_width == ComputeDeckTotalWidth(p)[1]
        margin == 140
        scale ==
            RMin(RDiv(R(width - 2 * margin), R(total_deck_width)),
                 RDiv(R(height - 2 * margin - 250),
                      RAdd(RMul(R(GIRDER_DEPTH), VISUAL_DEPTH),
                           R(p.deck_thickness + p.footpath_thickness + 1500))))
        center_x == RDiv(R(width), R(2))
        base_y == R(height - margin - 240)
        girder_depth_visual == RMul(RMul(R(GIRDER_DEPTH), scale), VISUAL_DEPTH)
        deck_bottom_y == RSub(base_y, girder_depth_visual)
        deck_top_y == RSub(deck_bottom_y, RMul(R(p.deck_thickness), scale))
        fp_top_y == RSub(deck_bottom_y, RMul(R(p.footpath_thickness), scale))
        deck_left_x == RSub(center_x, RDiv(RMul(R(total_deck_width), scale), R(2)))
        deck_right_x == RAdd(deck_left_x, RMul(R(total_deck_width), scale))
        crash_barrier_width_px == RMul(R(p.crash_barrier_width), scale)
        left_fp_x == deck_left_x
        left_barrier_x == RAdd(left_fp_x, RMul(R(left_fp_width), scale))
        left_barrier_end_x == RAdd(left_barrier_x, crash_barrier_width_px)
        right_fp_x == RSub(deck_right_x, RMul(R(right_fp_width), scale))
        right_barrier_end_x == right_fp_x
        right_barrier_x == RSub(right_barrier_end_x, crash_barrier_width_px)
        cw_width_px == RMul(R(p.carriageway_width), scale)
        median_width_px == RMul(R(p.median_width), scale)
        cw1_end_x == RAdd(left_barrier_end_x, cw_width_px)
        median_end_x == RAdd(cw1_end_x, median_width_px)
        cw2_end_x == RAdd(median_end_x, cw_width_px)
        n == IF p.num_girders > 1 THEN p.num_girders ELSE 1
        deck_overhang_px == RMul(p.deck_overhang, scale)
        first_girder_x == RAdd(deck_left_x, deck_overhang_px)
        last_girder_x == RSub(deck_right_x, deck_overhang_px)
        actual_spacing_px == RDiv(RSub(last_girder_x, first_girder_x), R(n - 1))
        nominal == IF n > 1 THEN Evenly(first_girder_x, actual_spacing_px, n)
                   ELSE <<center_x>>
        flange_half_px ==
            RDiv(RMul(RMul(R(FLANGE_WIDTH), scale), VISUAL_FLANGE_WIDTH), R(2))
        min_allowed_x == RAdd(RAdd(deck_left_x, flange_half_px), R(1))
        max_allowed_x == RSub(RSub(deck_right_x, flange_half_px), R(1))
    IN  IF total_deck_width = 0
        THEN [view |-> "cross-section", raised |-> "ZeroDivisionError"]
        ELSE [view |-> "cross-section",
              raised |-> "no",
              total_deck_width |-> total_deck_width,
              num_fp |-> ComputeDeckTotalWidth(p)[2],
              scale |-> scale,
              base_y |-> base_y,
              girder_depth_visual |-> girder_depth_visual,
              deck_bottom_y |-> deck_bottom_y,
              deck_top_y |-> deck_top_y,
              fp_top_y |-> fp_top_y,
              deck_left_x |-> deck_left_x,
              deck_right_x |-> deck_right_x,
              left_fp_x |-> left_fp_x,
              left_barrier_x |-> left_barrier_x,
              left_barrier_end_x |-> left_barrier_end_x,
              right_barrier_x |-> right_barrier_x,
              right_barrier_end_x |-> right_barrier_end_x,
              right_fp_x |-> right_fp_x,
              carriageway_start_x |-> left_barrier_end_x,
              carriageway_end_x |-> IF p.median_present THEN cw2_end_x ELSE right_barrier_x,
              median_present |-> p.median_present,
              median_start_x |-> IF p.median_present THEN cw1_end_x ELSE R(0),
              median_end_x |-> IF p.median_present THEN median_end_x ELSE R(0),
              n |-> n,
              nominal |-> nominal,
              min_allowed_x |-> min_allowed_x,
              max_allowed_x |-> max_allowed_x,
              positions |-> [i \in 1 .. n |->
                                RMax(min_allowed_x, RMin(max_allowed_x, nominal[i]))]]

\* The only element of a one-element set.  A handler that runs several
\* calls in sequence is written as nested one-element sets, each step
\* applied to the value of the step before.
Only(S) == CHOOSE x \in S : TRUE

\* f"{value_mm / 1000:.2f}": the value printed, in mm on the 10 mm grid of
\* two decimals of a metre
Metres2(value_mm, tieUp) == RoundGrid(value_mm, 10, tieUp)

\* fp_visible_mm of a footpath lying between fp_start_x and fp_end_x, the
\* railing at its outer edge taken off
VisibleFootpath(fp_start_x, fp_end_x, railing_width_px, scale) ==
    RDiv(RSub(RSub(fp_end_x, fp_start_x), railing_width_px), scale)

\* add_professional_cross_section_dimensions: the value each dimension label
\* prints (a sequence of one value, empty when the label is not drawn);
\* L is the layout of draw_cross_section
CrossSectionDimensions(p, L, tieUp) ==
    LET fp_config == p.footpath_config
        left_fp_width == IF fp_config \in {"left", "both"} THEN p.footpath_width ELSE 0
        right_fp_width == IF fp_config \in {"right", "both"} THEN p.footpath_width ELSE 0
        railing_width_px == RMul(R(RAILING_OUTER_WIDTH_MM), L.scale)
        left_visible == VisibleFootpath(L.deck_left_x, L.left_barrier_x,
                                        railing_width_px, L.scale)
        right_visible == VisibleFootpath(L.right_barrier_end_x, L.deck_right_x,
                                         railing_width_px, L.scale)
        fp_thick_px == RMul(R(p.footpath_thickness), L.scale)
        deck_thick_px == RMul(R(p.deck_thickness), L.scale)
    IN  [overall_width |->
             <<Metres2(RDiv(RSub(L.deck_right_x, L.deck_left_x), L.scale), tieUp)>>,
         left_footpath |->
             IF left_fp_width > 0 /\ RLt(R(0), left_visible)
             THEN <<Metres2(left_visible, tieUp)>> ELSE << >>,
         right_footpath |->
             IF right_fp_width > 0 /\ RLt(R(0), right_visible)
             THEN <<Metres2(right_visible, tieUp)>> ELSE << >>,
         carriageway |-> <<Metres2(R(p.carriageway_width), tieUp)>>,
         median |-> IF p.median_present
                    THEN <<Metres2(R(p.median_width), tieUp)>> ELSE << >>,
         overhang |-> IF L.n > 0 /\ Len(L.positions) > 0
                      THEN <<Metres2(p.deck_overhang, tieUp)>> ELSE << >>,
         girder_spacing |-> IF L.n > 1 /\ Len(L.positions) >= 2
                            THEN <<Metres2(p.girder_spacing, tieUp)>> ELSE << >>,
         footpath_thickness |->
             IF \/ left_fp_width > 0 /\ RLt(R(5), fp_thick_px)
                \/ fp_config = "right" /\ right_fp_width > 0 /\ RLt(R(5), fp_thick_px)
             THEN <<p.footpath_thickness>> ELSE << >>,
         deck_thickness |-> IF RLt(R(5), deck_thick_px)
                            THEN <<p.deck_thickness>> ELSE << >>]

\* QRectF(x, y, w, h)
QRectF(x, y, w, h) == [x |-> x, y |-> y, w |-> w, h |-> h]

\* QRectF.contains(pos): a null rectangle contains no point; a negative
\* width or height is normalised; the edges belong to the rectangle
Contains(rect, pos) ==
    LET l == IF RLt(rect.w, R(0)) THEN RAdd(rect.x, rect.w) ELSE rect.x
        r == IF RLt(rect.w, R(0)) THEN rect.x ELSE RAdd(rect.x, rect.w)
        t == IF RLt(rect.h, R(0)) THEN RAdd(rect.y, rect.h) ELSE rect.y
        b == IF RLt(rect.h, R(0)) THEN rect.y ELSE RAdd(rect.y, rect.h)
    IN  /\ l # r
        /\ t # b
        /\ RLe(l, pos[1]) /\ RLe(pos[1], r)
        /\ RLe(t, pos[2]) /\ RLe(pos[2], b)

\* one entry of components: its rectangle and its name; part tells the
\* components of one name apart (the side, or the number of the girder or bay)
Component(rect, name, part) == [rect |-> rect, name |-> name, part |-> part]

\* add_cross_section_hover_labels: the components list, in the order the
\* code appends to it; hover_labels gets one entry per component
HoverComponents(p, L) ==
    LET fp_config == p.footpath_config
        left_fp_width == IF fp_config \in {"left", "both"} THEN p.footpath_width ELSE 0
        right_fp_width == IF fp_config \in {"right", "both"} THEN p.footpath_width ELSE 0
        scale == L.scale
        crash_barrier_width_px == RMul(R(p.crash_barrier_width), scale)
        cb_height == RMul(R(CRASH_BARRIER_HEIGHT), scale)
        bf == RMul(RMul(R(FLANGE_WIDTH), scale), VISUAL_FLANGE_WIDTH)
        deck_thick_px == RMul(R(p.deck_thickness), scale)
        fp_thick_px == RMul(R(p.footpath_thickness), scale)
        railing_width_px == RMul(R(RAILING_OUTER_WIDTH_MM), scale)
        outer_w == RMax(R(4), RMul(R(RAILING_OUTER_WIDTH_MM), scale))
        total_h == RMul(R(RAILING_HEIGHT_MM), scale)
        stiff_w == RMul(RMul(STIFFENER_WIDTH, scale), VISUAL_FLANGE_WIDTH)
        total_width == RAdd(bf, RMul(R(2), stiff_w))
        deck == <<Component(QRectF(L.left_barrier_x, L.deck_top_y,
                                   RSub(L.right_barrier_end_x, L.left_barrier_x),
                                   deck_thick_px), "Deck", "deck")>>
        barriers ==
            <<Component(QRectF(L.left_barrier_x, RSub(L.deck_top_y, cb_height),
                               crash_barrier_width_px, cb_height),
                        "Crash Barrier", "left"),
              Component(QRectF(L.right_barrier_x, RSub(L.deck_top_y, cb_height),
                               crash_barrier_width_px, cb_height),
                        "Crash Barrier", "right")>>
        left_footpath ==
            IF left_fp_width > 0 /\ RLt(R(5), fp_thick_px)
            THEN <<Component(QRectF(RAdd(L.left_fp_x, railing_width_px), L.fp_top_y,
                                    RSub(RMul(R(left_fp_width), scale), railing_width_px),
                                    fp_thick_px), "Footpath", "left")>>
            ELSE << >>
        right_footpath ==
            IF right_fp_width > 0 /\ RLt(R(5), fp_thick_px)
            THEN <<Component(QRectF(L.right_barrier_end_x, L.fp_top_y,
                                    RSub(RSub(L.deck_right_x, L.right_barrier_end_x),
                                         railing_width_px),
                                    fp_thick_px), "Footpath", "right")>>
            ELSE << >>
        left_railing ==
            IF left_fp_width > 0
            THEN <<Component(QRectF(L.deck_left_x, RSub(L.fp_top_y, total_h),
                                    outer_w, total_h), "Railing", "left")>>
            ELSE << >>
        right_railing ==
            IF right_fp_width > 0
            THEN <<Component(QRectF(RSub(L.deck_right_x, railing_width_px),
                                    RSub(L.fp_top_y, total_h), outer_w, total_h),
                             "Railing", "right")>>
            ELSE << >>
        median ==
            IF p.median_present
            THEN <<Component(QRectF(L.median_start_x, RSub(L.deck_top_y, cb_height),
                                    RSub(L.median_end_x, L.median_start_x), cb_height),
                             "Median", "median")>>
            ELSE << >>
        girders ==
            [i \in 1 .. Len(L.positions) |->
                Component(QRectF(RSub(L.positions[i], RDiv(total_width, R(2))),
                                 RSub(L.base_y, L.girder_depth_visual),
                                 total_width, L.girder_depth_visual),
                          "Girder", i)]
        bay(i) ==
            LET x1 == RAdd(L.positions[i], RDiv(bf, R(2)))
                x2 == RSub(L.positions[i + 1], RDiv(bf, R(2)))
            IN  Component(QRectF(x1, RSub(L.base_y, L.girder_depth_visual),
                                 RSub(x2, x1), L.girder_depth_visual),
                          "Cross Bracing", i)
        bracing ==
            SelectSeq([i \in 1 .. L.n - 1 |-> bay(i)],
                      LAMBDA c : RLt(R(0), c.rect.w))
    IN  deck \o barriers \o left_footpath \o right_footpath \o left_railing
        \o right_railing \o median \o girders \o bracing

\* draw_cross_section: the layout, then the dimensions drawn on it and the
\* hover labels registered for it
CrossSection(p, width, height, tieUp) ==
    Only({ IF L.raised = "no"
           THEN [f \in DOMAIN L \cup {"labels", "hover_labels"} |->
                    CASE f = "labels" -> CrossSectionDimensions(p, L, tieUp)
                      [] f = "hover_labels" -> HoverComponents(p, L)
                      [] OTHER -> L[f]]
           ELSE L :
           L \in { CrossSectionLayout(p, width, height) } })

\* NumBraces truncating (int) where the code rounds up (math.ceil)
NumBraces_Truncated(span_length, bracing_spacing) ==
    LET floor == span_length \div bracing_spacing
    IN  IF floor > 1 THEN floor ELSE 1

\* num_braces = max(1, int(math.ceil(span_length / bracing_spacing)))
NumBraces(span_length, bracing_spacing) ==
    LET ceiling == RCeil(RDiv(R(span_length), R(bracing_spacing)))
    IN  IF ceiling > 1 THEN ceiling ELSE 1

\* for section in range(1, num_braces): brace_x_base, collected in
\* bracing_positions_x
BracingPositions(start_x_base, span_length_px, num_braces) ==
    LET actual_spacing_px == RDiv(span_length_px, R(num_braces))
    IN  [section \in 1 .. num_braces - 1 |->
            RAdd(start_x_base, RMul(R(section), actual_spacing_px))]

\* math.tan(math.radians(deg)) for the whole degrees the model enters, as the
\* nearest fraction of a small denominator (tan 10 = 0.17633 ~ 3/17,
\* tan 15 = 0.26795 ~ 15/56); odd in deg, zero at zero
TanDegrees(deg) ==
    LET pos == CASE Abs(deg) = 0 -> R(0)
                 [] Abs(deg) = 10 -> <<3, 17>>
                 [] Abs(deg) = 15 -> <<15, 56>>
    IN  IF deg < 0 THEN RNeg(pos) ELSE pos

\* SkewDegrees taking the angle as entered (no negation)
SkewDegrees_AsEntered(skew_angle) == skew_angle

\* skew_rad = math.radians(-self.params['skew_angle']); kept in degrees
SkewDegrees(skew_angle) == -skew_angle

\* XOffset shifting by the transverse offset itself (tan left out)
XOffset_NoTan(y_pos, y_first, skew_angle) == RSub(y_pos, y_first)

\* x_offset = y_offset_from_first * math.tan(skew_rad)
XOffset(y_pos, y_first, skew_angle) ==
    RMul(RSub(y_pos, y_first), TanDegrees(SkewDegrees(skew_angle)))

\* girder_lines: one {'y', 'x1', 'x2'} per girder
GirderLines(girder_positions_y, start_x_base, end_x_base, skew_angle) ==
    [i \in 1 .. Len(girder_positions_y) |->
        LET x_offset == XOffset(girder_positions_y[i], girder_positions_y[1],
                                skew_angle)
        IN  [y |-> girder_positions_y[i],
             x1 |-> RAdd(start_x_base, x_offset),
             x2 |-> RAdd(end_x_base, x_offset)]]

\* BearingLine drawn square to the girders (no skew offset)
BearingLine_Square(base_x, top_extent, bottom_extent, y_first, skew_angle) ==
    [x1 |-> base_x, y1 |-> top_extent, x2 |-> base_x, y2 |-> bottom_extent]

\* the centre line of bearings at base_x: from (left_top_x, top_extent) to
\* (left_bottom_x, bottom_extent) (resp. right_top_x, right_bottom_x)
BearingLine(base_x, top_extent, bottom_extent, y_first, skew_angle) ==
    [x1 |-> RAdd(base_x, XOffset(top_extent, y_first, skew_angle)),
     y1 |-> top_extent,
     x2 |-> RAdd(base_x, XOffset(bottom_extent, y_first, skew_angle)),
     y2 |-> bottom_extent]

\* for i in range(len(girder_positions_y) - 1): the line of one bay, from
\* girder i to girder i + 1, of an end diaphragm or a cross-bracing at base_x
BayLines(base_x, girder_positions_y, skew_angle) ==
    [i \in 1 .. Len(girder_positions_y) - 1 |->
        [x1 |-> RAdd(base_x, XOffset(girder_positions_y[i], girder_positions_y[1],
                                     skew_angle)),
         y1 |-> girder_positions_y[i],
         x2 |-> RAdd(base_x, XOffset(girder_positions_y[i + 1], girder_positions_y[1],
                                     skew_angle)),
         y2 |-> girder_positions_y[i + 1]]]

\* draw_top_view: scale, girder lines, bearing lines, end diaphragms and
\* cross-bracing
TopViewLayout(p, width, height) ==
    LET margin == 120
        available_width == width - 2 * margin
        available_height == height - 2 * margin - 180
        n == p.num_girders
        total_girder_width ==
            IF n > 1
            THEN RAdd(RMul(R(n - 1), p.girder_spacing), RMul(R(2), p.deck_overhang))
            ELSE RMul(R(2), p.deck_overhang)
        span_scale == RDiv(R(available_width), RMax(R(p.span_length), R(1)))
        width_scale == RDiv(R(available_height), RMax(total_girder_width, R(1)))
        scale == RMin(span_scale, width_scale)
        center_x == RDiv(R(width), R(2))
        center_y == RSub(RDiv(R(height), R(2)), R(40))
        spacing_px == RMul(p.girder_spacing, scale)
        total_width_px == RMul(R(n - 1), spacing_px)
        start_y == RSub(center_y, RDiv(total_width_px, R(2)))
        girder_positions_y == IF n > 1 THEN Evenly(start_y, spacing_px, n)
                              ELSE <<center_y>>
        span_length_px == RMul(R(p.span_length), scale)
        start_x_base == RSub(center_x, RDiv(span_length_px, R(2)))
        end_x_base == RAdd(center_x, RDiv(span_length_px, R(2)))
        braced == p.cross_bracing_spacing > 0 /\ n > 1
        num_braces == NumBraces(p.span_length, p.cross_bracing_spacing)
        bearing_gap_px == RMax(R(30), RMul(<<3, 10>>, RMul(p.girder_spacing, scale)))
        top_extent == RSub(girder_positions_y[1], bearing_gap_px)
        bottom_extent ==
            RAdd(girder_positions_y[Len(girder_positions_y)], bearing_gap_px)
        bracing_positions_x ==
            IF braced
            THEN BracingPositions(start_x_base, span_length_px, num_braces)
            ELSE << >>
    IN  [view |-> "top-view",
         raised |-> "no",
         n |-> n,
         scale |-> scale,
         center_x |-> center_x,
         center_y |-> center_y,
         left_bearing |-> BearingLine(start_x_base, top_extent, bottom_extent,
                                      girder_positions_y[1], p.skew_angle),
         right_bearing |-> BearingLine(end_x_base, top_extent, bottom_extent,
                                       girder_positions_y[1], p.skew_angle),
         left_diaphragm |->
             IF n > 1 THEN BayLines(start_x_base, girder_positions_y, p.skew_angle)
             ELSE << >>,
         right_diaphragm |->
             IF n > 1 THEN BayLines(end_x_base, girder_positions_y, p.skew_angle)
             ELSE << >>,
         bracing_lines |->
             [section \in 1 .. Len(bracing_positions_x) |->
                 BayLines(bracing_positions_x[section], girder_positions_y,
                          p.skew_angle)],
         girder_positions_y |-> girder_positions_y,
         girder_lines |-> GirderLines(girder_positions_y, start_x_base,
                                      end_x_base, p.skew_angle),
         span_length_px |-> span_length_px,
         start_x_base |-> start_x_base,
         end_x_base |-> end_x_base,
         braced |-> braced,
         num_braces |-> IF braced THEN num_braces ELSE 0,
         bracing_positions_x |-> bracing_positions_x]

\* ------------------------------------------------------------------------
\* Bounds of the model: the values edits and callers choose from
\* ------------------------------------------------------------------------
\* the number of user actions (input changes, resets, mouse moves) of one
\* session
MaxEdits == 2

\* the girder counts a user enters: GIRDERS_MIN .. MaxGirders and GIRDERS_MAX
MaxGirders == 3

GirderChoices == (GIRDERS_MIN .. MaxGirders) \cup {GIRDERS_MAX}

SpanChoices == {20000, 35000}

CarriagewayChoices == {4250, 10500}

SpacingChoices == {1000, 2750}

OverhangChoices == {100, 1999, 5000}

BracingChoices == {3500, 45000}

FpWidthChoices == {0, 1500}

ThicknessChoices == {200, 500}

SkewChoices == {-10, 0, 10}

\* widget sizes (at least the minimum size 900 x 600)
Sizes == {<<900, 600>>, <<1200, 900>>}

\* ------------------------------------------------------------------------
\* State
\* ------------------------------------------------------------------------
VARIABLES
    w,             \* BridgeDesignGUI: the values of the input widgets (mm)
    updating,      \* BridgeDesignGUI._updating
    last_changed,  \* BridgeDesignGUI._last_changed
    params,        \* BridgeCADWidget.params
    view_type,     \* BridgeCADWidget.view_type
    dirty,         \* a paint event is pending (QWidget.update() was called)
    layout,        \* the locals of the paintEvent that just ran
    ub,            \* the locals of the last update_bridge run
    phase,         \* "constructed" until main() has called reset_defaults
    edits,         \* the number of edits so far (bounded by MaxEdits)
    arg,           \* SpecBalancer, SpecWidget: the input drawn for the call
    bal,           \* SpecBalancer: the frames the balancer runs returned
    calls,         \* SpecReentry: the calls of update_bridge on the stack
    status_label,  \* BridgeDesignGUI.status_label: its text and the message shown
    timers,        \* the pending QTimer.singleShot timers, oldest first
    hovered_label_index,  \* BridgeCADWidget.hovered_label_index
    under_cursor   \* the component the cursor was on at the last mouse move

vars == <<w, updating, last_changed, params, view_type, dirty, layout, ub, phase, edits,
          arg, bal, calls, status_label, timers, hovered_label_index, under_cursor>>

NoArg == [given |-> FALSE]

\* no component under the cursor
NoComponent == [name |-> "none", part |-> "none"]

NoUb == [ran |-> FALSE]

\* the part of the state the handlers of BridgeDesignGUI work on
Gui == [w |-> w, updating |-> updating, last_changed |-> last_changed,
        params |-> params, view_type |-> view_type, dirty |-> dirty, ub |-> ub,
        status_label |-> status_label, timers |-> timers]

Becomes(g) ==
    /\ w' = g.w
    /\ updating' = g.updating
    /\ last_changed' = g.last_changed
    /\ params' = g.params
    /\ view_type' = g.view_type
    /\ dirty' = g.dirty
    /\ ub' = g.ub
    /\ status_label' = g.status_label
    /\ timers' = g.timers

\* QLabel("Status: Ready"), and what the lambda of a timer sets.  serial
\* tells the messages apart: it names the call of update_status that set the
\* text, 0 for the text no call set.
StatusReady == [text |-> "Status: Ready", serial |-> 0]

\* BridgeDesignGUI as __init__ leaves it
ConstructedGui ==
    [w |-> ConstructedInputs, updating |-> FALSE, last_changed |-> "none",
     params |-> ConstructedParams, view_type |-> "cross-section", dirty |-> TRUE,
     ub |-> NoUb, status_label |-> StatusReady, timers |-> << >>]

\* update_status(message): setText(message), then QTimer.singleShot(8000,
\* lambda: setText("Status: Ready")).  timers holds, oldest first, the
\* serial of the message each pending timer was started for.
UpdateStatus(g, message) ==
    LET serial == IF g.timers = << >> THEN 1 ELSE g.timers[Len(g.timers)] + 1
    IN  [g EXCEPT !.status_label = [text |-> message, serial |-> serial],
                  !.timers = Append(g.timers, serial)]

\* update_bridge: guard, read, balance (its branch calling update_status
\* when it adjusts), update_params (which calls update()), finally
\* _updating = False
UpdateBridge(g, tieUp) ==
    IF g.updating THEN g
    ELSE Only({ [(IF f.notice = "none" THEN g ELSE UpdateStatus(g, f.notice))
                    EXCEPT !.w = f.w,
                           !.params = f.p,
                           !.dirty = TRUE,
                           !.updating = FALSE,
                           !.ub = [ran |-> TRUE,
                                   tag |-> g.last_changed,
                                   read |-> ReadParams(g.w),
                                   deck_total |-> ComputeDeckTotalWidthMm(ReadParams(g.w))[1],
                                   notice |-> f.notice]] :
                f \in { Balance(ReadParams(g.w), g.w, g.last_changed, tieUp) } })

\* on_param_changed(source)
OnParamChanged(g, source, tieUp) ==
    UpdateBridge([g EXCEPT !.last_changed = source], tieUp)

\* setValue / setCurrentText with signals enabled: valueChanged fires only
\* when the stored value changes, and runs the connected lambda
SetInput(g, field, value, source, tieUp) ==
    IF g.w[field] = value THEN g
    ELSE OnParamChanged([g EXCEPT !.w[field] = value], source, tieUp)

\* set_view_type through on_view_changed (view_combo index changed)
SetViewType(g, v) ==
    IF g.view_type = v THEN g ELSE [g EXCEPT !.view_type = v, !.dirty = TRUE]

\* reset_defaults: the setValue calls in the order of the code, each one
\* running the handler connected to its widget when the value changes, then
\* update_bridge and update_status
ResetDefaults(g, tieUp) ==
    Only({ UpdateStatus([g13 EXCEPT !.ub.notice = "reset"], "reset") :
      g13 \in { UpdateBridge(g12, tieUp) :
      g12 \in { SetViewType(g11, "cross-section") :
      g11 \in { SetInput(g10, "footpath_combo", "Both", "other", tieUp) :
      g10 \in { SetInput(g9, "fp_thick_input", 200, "other", tieUp) :
      g9 \in { SetInput(g8, "fp_width_input", 1500, "other", tieUp) :
      g8 \in { SetInput(g7, "deck_overhang_input", 1000, "overhang", tieUp) :
      g7 \in { SetInput(g6, "deck_input", 200, "other", tieUp) :
      g6 \in { SetInput(g5, "skew_input", 0, "other", tieUp) :
      g5 \in { SetInput(g4, "carriageway_input", 10500, "other", tieUp) :
      g4 \in { SetInput(g3, "bracing_spacing_input", 3500, "other", tieUp) :
      g3 \in { SetInput(g2, "spacing_input", 2750, "spacing", tieUp) :
      g2 \in { SetInput(g1, "girders_input", 4, "other", tieUp) :
      g1 \in { SetInput(g0, "span_input", 35000, "other", tieUp) :
      g0 \in { [g EXCEPT !.last_changed = "other"] } } } } } } } } } } } } } } })

\* ------------------------------------------------------------------------
\* Actions of the program (specification Spec)
\* ------------------------------------------------------------------------
Init ==
    /\ hovered_label_index = -1
    /\ under_cursor = NoComponent
    /\ status_label = StatusReady
    /\ timers = << >>
    /\ w = ConstructedInputs
    /\ updating = FALSE
    /\ last_changed = "none"
    /\ params = ConstructedParams
    /\ view_type = "cross-section"
    /\ dirty = TRUE
    /\ layout = NoLayout
    /\ ub = NoUb
    /\ phase = "constructed"
    /\ edits = 0
    /\ arg = NoArg
    /\ bal = << >>
    /\ calls = << >>

\* main(): window.reset_defaults() before the event loop starts
MainReset ==
    /\ phase = "constructed"
    /\ \E tieUp \in BOOLEAN : Becomes(ResetDefaults(Gui, tieUp))
    /\ phase' = "running"
    /\ layout' = NoLayout
    /\ UNCHANGED <<edits, arg, bal, calls,
                   hovered_label_index, under_cursor>>

\* a user edit of one input widget to a value of its range
Edit(field, value, source) ==
    /\ phase = "running"
    /\ edits < MaxEdits
    /\ w[field] # value
    /\ \E tieUp \in BOOLEAN : Becomes(SetInput(Gui, field, value, source, tieUp))
    /\ layout' = NoLayout
    /\ edits' = edits + 1
    /\ UNCHANGED <<phase, arg, bal, calls,
                   hovered_label_index, under_cursor>>

EditSpan == \E v \in SpanChoices : Edit("span_input", v, "other")

EditCarriageway == \E v \in CarriagewayChoices : Edit("carriageway_input", v, "other")

EditMedian == \E v \in {"No", "Yes"} : Edit("median_combo", v, "other")

EditFootpath == \E v \in {"None", "Left", "Right", "Both"} : Edit("footpath_combo", v, "other")

EditSkew == \E v \in SkewChoices : Edit("skew_input", v, "other")

EditGirders == \E v \in GirderChoices : Edit("girders_input", v, "other")

EditSpacing == \E v \in SpacingChoices : Edit("spacing_input", v, "spacing")

EditOverhang == \E v \in OverhangChoices : Edit("deck_overhang_input", v, "overhang")

EditBracing == \E v \in BracingChoices : Edit("bracing_spacing_input", v, "other")

EditDeckThickness == \E v \in ThicknessChoices : Edit("deck_input", v, "other")

EditFpWidth == \E v \in FpWidthChoices : Edit("fp_width_input", v, "other")

EditFpThickness == \E v \in ThicknessChoices : Edit("fp_thick_input", v, "other")

\* the Reset button
Reset ==
    /\ phase = "running"
    /\ edits < MaxEdits
    /\ \E tieUp \in BOOLEAN : Becomes(ResetDefaults(Gui, tieUp))
    /\ layout' = NoLayout
    /\ edits' = edits + 1
    /\ UNCHANGED <<phase, arg, bal, calls,
                   hovered_label_index, under_cursor>>

\* the view combo box
ViewChanged ==
    /\ phase = "running"
    /\ \E v \in {"cross-section", "top-view"} :
          /\ view_type # v
          /\ Becomes(SetViewType(Gui, v))
    /\ layout' = NoLayout
    /\ UNCHANGED <<phase, edits, arg, bal, calls,
                   hovered_label_index, under_cursor>>

\* paintEvent, at the size the widget has by then
PaintEvent ==
    /\ dirty
    /\ dirty' = FALSE
    /\ \E sz \in Sizes, tieUp \in BOOLEAN :
          layout' = IF view_type = "cross-section"
                    THEN CrossSection(params, sz[1], sz[2], tieUp)
                    ELSE TopViewLayout(params, sz[1], sz[2])
    /\ UNCHANGED <<w, updating, last_changed, params, view_type, ub, phase, edits,
                   arg, bal, calls, status_label, timers,
                   hovered_label_index, under_cursor>>

\* the event loop of main() delivers the paint event
Paint ==
    /\ phase = "running"
    /\ PaintEvent

Next ==
    \/ MainReset
    \/ EditSpan
    \/ EditCarriageway
    \/ EditMedian
    \/ EditFootpath
    \/ EditSkew
    \/ EditGirders
    \/ EditSpacing
    \/ EditOverhang
    \/ EditBracing
    \/ EditDeckThickness
    \/ EditFpWidth
    \/ EditFpThickness
    \/ Reset
    \/ ViewChanged
    \/ Paint

\* the session while no status timer expires
Spec == Init /\ [][Next]_vars

\* ------------------------------------------------------------------------
\* SpecStatus: the session with the status timers.  A timer event changes
\* the status label and the pending timers only, which no handler reads
\* but update_status.
\* ------------------------------------------------------------------------
\* the event loop runs the lambda of the oldest pending timer (all timers
\* run 8000 ms, so they expire in the order they were started)
TimerFires ==
    /\ phase = "running"
    /\ timers # << >>
    /\ timers' = Tail(timers)
    /\ status_label' = StatusReady
    /\ UNCHANGED <<w, updating, last_changed, params, view_type, dirty, layout, ub,
                   phase, edits, arg, bal, calls,
                   hovered_label_index, under_cursor>>

NextStatus == Next \/ TimerFires

SpecStatus == Init /\ [][NextStatus]_vars

\* ------------------------------------------------------------------------
\* SpecHover: the session with the mouse moving over the painted
\* cross-section
\* ------------------------------------------------------------------------
\* the points the cursor is moved to: the centre of the first girder's
\* rectangle, the centre of the rectangle registered last, or the corner of
\* the widget
CursorPoints(hover_labels) ==
    { <<RAdd(hover_labels[i].rect.x, RDiv(hover_labels[i].rect.w, R(2))),
        RAdd(hover_labels[i].rect.y, RDiv(hover_labels[i].rect.h, R(2)))>> :
      i \in { j \in 1 .. Len(hover_labels) :
                 \/ j = Len(hover_labels)
                 \/ hover_labels[j].name = "Girder" /\ hover_labels[j].part = 1 } }
    \cup { <<R(0), R(0)>> }

\* for i, (rect, ...) in enumerate(self.hover_labels): if rect.contains(pos):
\* new_hovered = i; break -- counted from 0, -1 when no rectangle contains pos
NewHovered(hover_labels, pos) ==
    LET hits == { i \in 1 .. Len(hover_labels) : Contains(hover_labels[i].rect, pos) }
    IN  IF hits = {} THEN -1
        ELSE (CHOOSE i \in hits : \A j \in hits : i <= j) - 1

\* mouseMoveEvent over the cross-section that was painted last
MouseMove ==
    /\ phase = "running"
    /\ edits < MaxEdits
    /\ edits' = edits + 1
    /\ view_type = "cross-section"
    /\ layout.view = "cross-section"
    /\ layout.raised = "no"
    /\ \E pos \in CursorPoints(layout.hover_labels) :
          LET new_hovered == NewHovered(layout.hover_labels, pos)
          IN  /\ hovered_label_index' = new_hovered
              /\ under_cursor' =
                    IF new_hovered = -1 THEN NoComponent
                    ELSE [name |-> layout.hover_labels[new_hovered + 1].name,
                          part |-> layout.hover_labels[new_hovered + 1].part]
              /\ dirty' = (dirty \/ new_hovered # hovered_label_index)
    /\ UNCHANGED <<w, updating, last_changed, params, view_type, layout, ub, phase,
                   arg, bal, calls, status_label, timers>>

NextHover == Next \/ MouseMove

SpecHover == Init /\ [][NextHover]_vars

\* ------------------------------------------------------------------------
\* SpecBalancer: the balancer as a function.  Init draws a parameter set
\* (as update_bridge reads it) and an edited-field tag; the balancer runs on
\* it, and then once more, with tag 'other', on the parameters it returned.
\* ------------------------------------------------------------------------
MaxBalGirders == 4

BalGirders == (1 .. MaxBalGirders) \cup {GIRDERS_MAX}

BalCarriageways == {4250, 10500, 24000}

BalFpWidths == {1500, 2000}

BalSpacings == {1000, 2750, 3500, 24000}

BalOverhangs == {100, 299, 300, 1000, 2000, 2001, 5000}

Tags == {"overhang", "spacing", "other"}

BalInputs ==
    { [ConstructedInputs EXCEPT !.girders_input = n,
                                !.carriageway_input = cw,
                                !.footpath_combo = fp,
                                !.fp_width_input = fw,
                                !.median_combo = md,
                                !.spacing_input = sp,
                                !.deck_overhang_input = oh] :
        n \in BalGirders, cw \in BalCarriageways, fp \in {"None", "Left", "Both"},
        fw \in BalFpWidths, md \in {"No", "Yes"}, sp \in BalSpacings,
        oh \in BalOverhangs }

InitBalancer ==
    /\ hovered_label_index = -1
    /\ under_cursor = NoComponent
    /\ status_label = StatusReady
    /\ timers = << >>
    /\ w = ConstructedInputs
    /\ updating = FALSE
    /\ last_changed = "none"
    /\ params = ConstructedParams
    /\ view_type = "cross-section"
    /\ dirty = FALSE
    /\ layout = NoLayout
    /\ ub = NoUb
    /\ phase = "balancer"
    /\ edits = 0
    /\ \E in \in BalInputs, tag \in Tags : arg = [given |-> TRUE, w |-> in, tag |-> tag]
    /\ bal = << >>
    /\ calls = << >>

\* the balancer on the drawn input
BalanceOnce ==
    /\ phase = "balancer"
    /\ Len(bal) = 0
    /\ \E tieUp \in BOOLEAN :
          bal' = <<Balance(ReadParams(arg.w), arg.w, arg.tag, tieUp)>>
    /\ UNCHANGED <<w, updating, last_changed, params, view_type, dirty, layout, ub,
                   phase, edits, arg, calls, status_label, timers,
                   hovered_label_index, under_cursor>>

\* update_bridge again, tag 'other': it reads the input form the first run
\* wrote its overhang and spacing back to
BalanceAgain ==
    /\ phase = "balancer"
    /\ Len(bal) = 1
    /\ \E tieUp \in BOOLEAN :
          bal' = Append(bal, Balance(ReadParams(bal[1].w), bal[1].w, "other", tieUp))
    /\ UNCHANGED <<w, updating, last_changed, params, view_type, dirty, layout, ub,
                   phase, edits, arg, calls, status_label, timers,
                   hovered_label_index, under_cursor>>

NextBalancer == BalanceOnce \/ BalanceAgain

SpecBalancer == InitBalancer /\ [][NextBalancer]_vars

\* ------------------------------------------------------------------------
\* SpecWidget: the drawing widget on its own.  Init draws a parameter
\* dict; update_params hands it to the widget, which paints either view.
\* ------------------------------------------------------------------------
MaxWidgetGirders == 3

WidgetParams ==
    { [ConstructedParams EXCEPT !.num_girders = n,
                                !.carriageway_width = cw,
                                !.crash_barrier_width = cb,
                                !.footpath_config = fp,
                                !.median_present = md,
                                !.deck_overhang = R(oh),
                                !.span_length = sl,
                                !.cross_bracing_spacing = cbs] :
        n \in 0 .. MaxWidgetGirders, cw \in {0, 500, 4250, 10500}, cb \in {0, 500},
        fp \in {"none", "both"}, md \in {FALSE, TRUE}, oh \in {0, 300, 2000, 5000},
        sl \in {0, 35000}, cbs \in {0, 3500} }

InitWidget ==
    /\ hovered_label_index = -1
    /\ under_cursor = NoComponent
    /\ status_label = StatusReady
    /\ timers = << >>
    /\ w = ConstructedInputs
    /\ updating = FALSE
    /\ last_changed = "none"
    /\ params = ConstructedParams
    /\ view_type = "cross-section"
    /\ dirty = TRUE
    /\ layout = NoLayout
    /\ ub = NoUb
    /\ phase = "widget"
    /\ edits = 0
    /\ \E p \in WidgetParams : arg = [given |-> TRUE, p |-> p]
    /\ bal = << >>
    /\ calls = << >>

\* update_params(params): self.params.update(params); self.update()
UpdateParams ==
    /\ phase = "widget"
    /\ arg.given
    /\ params # arg.p
    /\ params' = arg.p
    /\ dirty' = TRUE
    /\ layout' = NoLayout
    /\ UNCHANGED <<w, updating, last_changed, view_type, ub, phase, edits, arg, bal, calls,
                   status_label, timers,
                   hovered_label_index, under_cursor>>

\* set_view_type(view_type)
WidgetSetViewType ==
    /\ phase = "widget"
    /\ \E v \in {"cross-section", "top-view"} :
          /\ view_type # v
          /\ view_type' = v
    /\ dirty' = TRUE
    /\ layout' = NoLayout
    /\ UNCHANGED <<w, updating, last_changed, params, ub, phase, edits, arg, bal, calls,
                   status_label, timers,
                   hovered_label_index, under_cursor>>

WidgetPaint ==
    /\ phase = "widget"
    /\ PaintEvent

NextWidget == UpdateParams \/ WidgetSetViewType \/ WidgetPaint

SpecWidget == InitWidget /\ [][NextWidget]_vars

\* ------------------------------------------------------------------------
\* SpecReentry: update_bridge statement by statement, on a call stack.
\* A call stands at the guard, in the body of the try, at update_params or
\* at the finally clause.  The body may raise; a slot may call update_bridge
\* while another call is on the stack.
\* ------------------------------------------------------------------------
\* the depth of the call stack
MaxDepth == 2

\* the calls one run of update_bridge turns away at its guard
MaxGuarded == 1

\* the edits of SpecReentry: <<widget, value, tag of its valueChanged slot>>
ReentryEdits ==
    {<<"spacing_input", v, "spacing">> : v \in SpacingChoices}
    \cup {<<"deck_overhang_input", v, "overhang">> : v \in OverhangChoices}
    \cup {<<"bracing_spacing_input", v, "other">> : v \in BracingChoices}
    \cup {<<"girders_input", v, "other">> : v \in GirderChoices}
    \cup {<<"span_input", v, "other">> : v \in SpanChoices}

\* the source a widget's valueChanged slot passes to on_param_changed
SlotTag(widget) ==
    CASE widget = "spacing_input" -> "spacing"
      [] widget = "deck_overhang_input" -> "overhang"
      [] OTHER -> "other"

\* SignalsBlocked with the blockSignals(True) before the setValue left out
SignalsBlocked_Never(widget) == FALSE

\* blockSignals(True) is in force when update_bridge calls widget.setValue
SignalsBlocked(widget) == TRUE

\* the widgets a write of update_bridge changed and whose valueChanged is
\* emitted
Emitting(before, after) ==
    { x \in {"spacing_input", "deck_overhang_input", "bracing_spacing_input"} :
        before[x] # after[x] /\ ~SignalsBlocked(x) }

Top == calls[Len(calls)]

Pop == SubSeq(calls, 1, Len(calls) - 1)

SetTop(frame) == [calls EXCEPT ![Len(calls)] = frame]

\* the state main() leaves: constructed, then reset_defaults
InitReentry ==
    \E tieUp \in BOOLEAN :
        LET g == ResetDefaults(ConstructedGui, tieUp)
        IN  /\ hovered_label_index = -1
            /\ under_cursor = NoComponent
            /\ status_label = g.status_label
            /\ timers = g.timers
            /\ w = g.w
            /\ updating = g.updating
            /\ last_changed = g.last_changed
            /\ params = g.params
            /\ view_type = g.view_type
            /\ dirty = g.dirty
            /\ layout = NoLayout
            /\ ub = NoUb
            /\ phase = "stepping"
            /\ edits = 0
            /\ arg = NoArg
            /\ bal = << >>
            /\ calls = << >>

\* a user edit: the widget takes the value, valueChanged runs
\* on_param_changed(source), which sets _last_changed and calls update_bridge
StepEdit ==
    /\ phase = "stepping"
    /\ calls = << >>
    /\ edits < MaxEdits
    /\ \E e \in ReentryEdits :
          /\ w[e[1]] # e[2]
          /\ w' = [w EXCEPT ![e[1]] = e[2]]
          /\ last_changed' = e[3]
    /\ calls' = <<[pc |-> "guard", from |-> "edit", p |-> params, raised |-> FALSE,
                   guarded |-> 0, wrote |-> FALSE]>>
    /\ edits' = edits + 1
    /\ ub' = NoUb
    /\ UNCHANGED <<updating, params, view_type, dirty, layout, phase, arg, bal,
                   status_label, timers,
                   hovered_label_index, under_cursor>>

\* update_bridge is called while a call of it is in its try block
StepNestedCall ==
    /\ phase = "stepping"
    /\ calls # << >>
    /\ Len(calls) < MaxDepth
    /\ Top.pc \in {"body", "update_params"}
    /\ Top.guarded < MaxGuarded
    /\ calls' = Append(calls, [pc |-> "guard", from |-> "nested", p |-> params,
                               raised |-> FALSE, guarded |-> 0, wrote |-> FALSE])
    /\ UNCHANGED <<w, updating, last_changed, params, view_type, dirty, layout, ub,
                   phase, edits, arg, bal, status_label, timers,
                   hovered_label_index, under_cursor>>

\* if self._updating: return; self._updating = True
StepGuard ==
    /\ phase = "stepping"
    /\ calls # << >>
    /\ Top.pc = "guard"
    /\ IF updating
       THEN /\ calls' = IF Len(calls) > 1
                        THEN [Pop EXCEPT ![Len(calls) - 1].guarded = @ + 1]
                        ELSE Pop
            /\ UNCHANGED updating
       ELSE /\ updating' = TRUE
            /\ calls' = SetTop([Top EXCEPT !.pc = "body"])
    /\ UNCHANGED <<w, last_changed, params, view_type, dirty, layout, ub, phase,
                   edits, arg, bal, status_label, timers,
                   hovered_label_index, under_cursor>>

\* the try block up to update_params: read the form, clamp the bracing,
\* balance, write back; a write whose signal is not blocked runs the slot
\* of its widget before the next statement
StepBody ==
    /\ phase = "stepping"
    /\ calls # << >>
    /\ Top.pc = "body"
    /\ \E tieUp \in BOOLEAN :
          \E f \in { Balance(ReadParams(w), w, last_changed, tieUp) } :
              /\ w' = f.w
              /\ IF Emitting(w, f.w) = {}
                 THEN /\ calls' = SetTop([Top EXCEPT !.pc = "update_params", !.p = f.p,
                                                      !.wrote = (f.w # w)])
                      /\ UNCHANGED last_changed
                 ELSE \E x \in Emitting(w, f.w) :
                      /\ last_changed' = SlotTag(x)
                      /\ calls' = Append(SetTop([Top EXCEPT !.pc = "update_params",
                                                            !.p = f.p, !.wrote = TRUE]),
                                         [pc |-> "guard", from |-> "signal",
                                          p |-> params, raised |-> FALSE,
                                          guarded |-> 0, wrote |-> FALSE])
    /\ UNCHANGED <<updating, params, view_type, dirty, layout, ub, phase, edits,
                   arg, bal, status_label, timers,
                   hovered_label_index, under_cursor>>

\* a statement of the try block raises: control passes to the finally clause
StepRaise ==
    /\ phase = "stepping"
    /\ calls # << >>
    /\ Top.pc \in {"body", "update_params"}
    /\ calls' = SetTop([Top EXCEPT !.pc = "finally", !.raised = TRUE])
    /\ UNCHANGED <<w, updating, last_changed, params, view_type, dirty, layout, ub,
                   phase, edits, arg, bal, status_label, timers,
                   hovered_label_index, under_cursor>>

\* self.cad_widget.update_params(params)
StepUpdateParams ==
    /\ phase = "stepping"
    /\ calls # << >>
    /\ Top.pc = "update_params"
    /\ params' = Top.p
    /\ dirty' = TRUE
    /\ calls' = SetTop([Top EXCEPT !.pc = "finally"])
    /\ UNCHANGED <<w, updating, last_changed, view_type, layout, ub, phase, edits,
                   arg, bal, status_label, timers,
                   hovered_label_index, under_cursor>>

\* finally: self._updating = False; the call returns or the exception
\* leaves it
StepFinally ==
    /\ phase = "stepping"
    /\ calls # << >>
    /\ Top.pc = "finally"
    /\ updating' = FALSE
    /\ ub' = [ran |-> TRUE,
              exit |-> IF Top.raised THEN "raised" ELSE "returned",
              guarded |-> Top.guarded,
              wrote |-> Top.wrote]
    /\ calls' = Pop
    /\ UNCHANGED <<w, last_changed, params, view_type, dirty, layout, phase, edits,
                   arg, bal, status_label, timers,
                   hovered_label_index, under_cursor>>

NextReentry ==
    \/ StepEdit
    \/ StepNestedCall
    \/ StepGuard
    \/ StepBody
    \/ StepRaise
    \/ StepUpdateParams
    \/ StepFinally

SpecReentry == InitReentry /\ [][NextReentry]_vars

\* ------------------------------------------------------------------------
\* Properties
\* ------------------------------------------------------------------------
\* 2 * overhang + (n - 1) * spacing - deckTotal, in absolute value
Imbalance(p, deckTotal) ==
    RAbs(RSub(RAdd(RMul(R(2), p.deck_overhang),
                   RMul(R(p.num_girders - 1), p.girder_spacing)),
              R(deckTotal)))

\* the number of footpaths of a configuration, as the specification gives it
FootpathCount(config) ==
    CASE config = "both" -> 2
      [] config = "left" -> 1
      [] config = "right" -> 1
      [] config = "none" -> 0

\* C1 (as claimed; the code violates it): balance invariant.  After every
\* update_bridge with n > 1, whatever the edited field, the parameters handed
\* to the drawing widget satisfy |2*overhang + (n-1)*spacing - deckTotal| < 1 mm
\* (deckTotal as update_bridge computed it).
C1_BalanceInvariant ==
    (ub.ran /\ params.num_girders > 1) =>
        RLt(Imbalance(params, ub.deck_total), R(1))

\* C2 (as claimed; the code violates it): bounds invariant.  After every
\* update_bridge the parameters have deck_overhang in [300, 2000] and
\* girder_spacing in [1000, 24000].
C2_BoundsInvariant ==
    ub.ran =>
        /\ RLe(R(300), params.deck_overhang)
        /\ RLe(params.deck_overhang, R(2000))
        /\ RLe(R(1000), params.girder_spacing)
        /\ RLe(params.girder_spacing, R(24000))

\* C3 (as claimed; the code violates it): idempotence.  When update_bridge
\* has run with edited field 'other' and runs again with 'other' on the
\* overhang and spacing it just produced, every other input unchanged, the
\* second run changes neither deck_overhang nor girder_spacing.
C3_Idempotent ==
    (Len(bal) = 2 /\ arg.tag = "other") =>
        /\ bal[2].p.deck_overhang = bal[1].p.deck_overhang
        /\ bal[2].p.girder_spacing = bal[1].p.girder_spacing

C5_DeckWidthWithMedian ==
    LET expected(p) == 2 * p.carriageway_width + p.median_width
                         + 2 * p.crash_barrier_width
                         + FootpathCount(p.footpath_config) * p.footpath_width
    IN  /\ (ub.ran /\ ub.read.median_present) => ub.deck_total = expected(ub.read)
        /\ (layout.view = "cross-section" /\ params.median_present) =>
               layout.total_deck_width = expected(params)

\* C6: deck width without median.  When median_present is false the deck
\* total width (the balancer's and the cross-section layout's) is
\* carriageway + 2*crash barrier + footpathCount*footpath, footpathCount
\* being 2 for 'both', 1 for 'left' or 'right', 0 for 'none'; the railing
\* width is no part of it.
C6_DeckWidthNoMedian ==
    LET expected(p) == p.carriageway_width + 2 * p.crash_barrier_width
                         + FootpathCount(p.footpath_config) * p.footpath_width
    IN  /\ (ub.ran /\ ~ub.read.median_present) => ub.deck_total = expected(ub.read)
        /\ (layout.view = "cross-section" /\ ~params.median_present) =>
               /\ layout.raised = "no"
               /\ layout.total_deck_width = expected(params)
               /\ layout.num_fp = FootpathCount(params.footpath_config)

\* C6 witness: the example of the specification, painted: 10500, 500, 1500,
\* both, no median gives 14500
C6_Witness ==
    /\ layout.view = "cross-section"
    /\ ~params.median_present
    /\ params.carriageway_width = 10500
    /\ params.crash_barrier_width = 500
    /\ params.footpath_width = 1500
    /\ params.footpath_config = "both"
    /\ layout.total_deck_width = 14500

\* the inputs of example 1, as update_bridge read them
Example1Read ==
    /\ ub.ran
    /\ ub.tag = "other"
    /\ ub.read.span_length = 35000
    /\ ub.read.num_girders = 4
    /\ ub.read.girder_spacing = R(2750)
    /\ ub.read.carriageway_width = 10500
    /\ ub.read.footpath_config = "both"
    /\ ub.read.footpath_width = 1500
    /\ ub.read.crash_barrier_width = 500
    /\ ~ub.read.median_present

\* C7: example 1.  With the default inputs and edited field 'other',
\* update_bridge computes deckTotal = 14500 and produces deck_overhang = 2000
\* and girder_spacing = 3500.
C7_Example1 ==
    Example1Read =>
        /\ ub.deck_total = 14500
        /\ params.deck_overhang = R(2000)
        /\ params.girder_spacing = R(3500)

\* C7 witness: the update_bridge that main() runs through reset_defaults
C7_Witness ==
    /\ Example1Read
    /\ phase = "running"
    /\ edits = 0
    /\ w.spacing_input = 3500
    /\ w.deck_overhang_input = 2000

\* C8 (as claimed; the code violates it): monotonic girders.  The girder
\* positions of the cross-section are n of them (n >= 1), strictly
\* increasing, the first and the last within [deckLeft, deckRight].
C8_MonotonicGirders ==
    (layout.view = "cross-section" /\ layout.raised = "no"
       /\ params.num_girders >= 1) =>
        /\ Len(layout.positions) = params.num_girders
        /\ \A i \in 1 .. Len(layout.positions) - 1 :
              RLt(layout.positions[i], layout.positions[i + 1])
        /\ RLe(layout.deck_left_x, layout.positions[1])
        /\ RLe(layout.positions[Len(layout.positions)], layout.deck_right_x)

\* C9 (as claimed; the code violates it): no fatal errors.  For every
\* parameter set handed to the widget by update_params, zero widths
\* included, painting either view completes without raising.
C9_PaintNeverRaises ==
    layout.view # "none" => layout.raised = "no"

\* C10 (as claimed; the code differs): bracing coverage.  The bracing lines
\* of the top view are at start + k*(spanPx/numBraces) for every k from 0 to
\* numBraces, the span start and the span end included.
C10_BracingEndsIncluded ==
    (layout.view = "top-view" /\ layout.braced) =>
        /\ Len(layout.bracing_positions_x) = layout.num_braces + 1
        /\ layout.bracing_positions_x[1] = layout.start_x_base
        /\ layout.bracing_positions_x[Len(layout.bracing_positions_x)]
               = layout.end_x_base

\* C10 (amended): in the top view with n > 1 and cross_bracing_spacing > 0,
\* numBraces = max(1, ceil(span_length / cross_bracing_spacing)) and the
\* bracing lines are at start + k*(spanPx/numBraces) for every k from 1 to
\* numBraces - 1: evenly spaced, one step inside the span start and one step
\* inside the span end, none at the two ends.
C10_BracingInterior ==
    (layout.view = "top-view" /\ layout.braced) =>
        LET nb == layout.num_braces
            xs == layout.bracing_positions_x
            step == RDiv(layout.span_length_px, R(nb))
        IN  /\ nb >= 1
            /\ nb * params.cross_bracing_spacing >= params.span_length
            /\ nb > 1 => (nb - 1) * params.cross_bracing_spacing < params.span_length
            /\ Len(xs) = nb - 1
            /\ \A k \in 1 .. Len(xs) :
                  xs[k] = RAdd(layout.start_x_base, RMul(R(k), step))
            /\ Len(xs) > 0 =>
                  /\ RSub(layout.end_x_base, xs[Len(xs)]) = step
                  /\ RLt(layout.start_x_base, xs[1])
                  /\ RLt(xs[Len(xs)], layout.end_x_base)

\* C10 witness: a top view with bracing lines, the span no multiple of the
\* bracing spacing
C10_Witness ==
    /\ layout.view = "top-view"
    /\ layout.braced
    /\ layout.num_braces >= 3
    /\ Len(layout.bracing_positions_x) = layout.num_braces - 1
    /\ layout.num_braces * params.cross_bracing_spacing > params.span_length

\* the longitudinal shift of girder line i against the first girder line,
\* in the units of the parameters (pixels divided by the scale)
RealShift(i) ==
    RDiv(RSub(layout.girder_lines[i].x1, layout.girder_lines[1].x1), layout.scale)

\* the top view of more than one girder, drawn to a positive scale
SkewedTopView ==
    /\ layout.view = "top-view"
    /\ layout.n > 1
    /\ RLt(R(0), layout.scale)

\* C11 (as claimed; the code differs): skew projection direction.  In the
\* top view a girder line at positive transverse offset dy from the first
\* girder is shifted longitudinally by +dy*tan(skew_angle): positive for a
\* positive skew, negative for a negative one.
C11_SkewShiftSameSign ==
    SkewedTopView =>
        \A i \in 2 .. layout.n :
            /\ RealShift(i)
                 = RMul(RMul(R(i - 1), params.girder_spacing),
                        TanDegrees(params.skew_angle))
            /\ params.skew_angle > 0 => RLt(R(0), RealShift(i))
            /\ params.skew_angle < 0 => RLt(RealShift(i), R(0))

\* C11 (amended): in the top view a girder line at positive transverse
\* offset dy from the first girder is shifted longitudinally by
\* dy*tan(-skew_angle) = -dy*tan(skew_angle), at both of its ends: negative
\* for a positive skew, positive for a negative one; for skew_angle = +10
\* degrees and dy = 2750 the shift is about -485.
C11_SkewShiftNegated ==
    SkewedTopView =>
        \A i \in 2 .. layout.n :
            /\ RealShift(i)
                 = RNeg(RMul(RMul(R(i - 1), params.girder_spacing),
                             TanDegrees(params.skew_angle)))
            /\ RSub(layout.girder_lines[i].x2, layout.girder_lines[1].x2)
                 = RSub(layout.girder_lines[i].x1, layout.girder_lines[1].x1)
            /\ params.skew_angle > 0 => RLt(RealShift(i), R(0))
            /\ params.skew_angle < 0 => RLt(R(0), RealShift(i))
            /\ (params.skew_angle = 10 /\ params.girder_spacing = R(2750) /\ i = 2) =>
                   /\ RLt(R(-486), RealShift(i))
                   /\ RLt(RealShift(i), R(-484))

\* C11 witness: the example painted, skew 10 degrees and spacing 2750, the
\* second girder line shifted against the first
C11_Witness ==
    /\ SkewedTopView
    /\ params.skew_angle = 10
    /\ params.girder_spacing = R(2750)
    /\ layout.girder_lines[2].x1 # layout.girder_lines[1].x1

\* C12: symmetry.  With skew_angle = 0 every girder line of the top view has
\* x1 = centerX - spanPx/2 and x2 = centerX + spanPx/2, whatever n and the
\* spacing.
C12_ZeroSkewAligned ==
    (layout.view = "top-view" /\ params.skew_angle = 0) =>
        /\ Len(layout.girder_lines) = layout.n
        /\ \A i \in 1 .. Len(layout.girder_lines) :
              /\ layout.girder_lines[i].x1
                   = RSub(layout.center_x, RDiv(layout.span_length_px, R(2)))
              /\ layout.girder_lines[i].x2
                   = RAdd(layout.center_x, RDiv(layout.span_length_px, R(2)))

\* C12 witness: an unskewed top view of three or more girders at distinct
\* transverse positions
C12_Witness ==
    /\ layout.view = "top-view"
    /\ params.skew_angle = 0
    /\ layout.n >= 3
    /\ RLt(layout.girder_lines[1].y, layout.girder_lines[3].y)
    /\ RLt(layout.girder_lines[1].x1, layout.girder_lines[1].x2)

\* C13: after every completed update_bridge the parameters handed to the
\* drawing widget have cross_bracing_spacing <= span_length; a larger
\* bracing spacing read from the form is replaced by the span and written
\* back to the bracing input.
C13_BracingWithinSpan ==
    ub.ran =>
        /\ params.cross_bracing_spacing <= params.span_length
        /\ params.span_length = ub.read.span_length
        /\ ub.read.cross_bracing_spacing > ub.read.span_length =>
              /\ params.cross_bracing_spacing = params.span_length
              /\ w.bracing_spacing_input = params.span_length
        /\ ub.read.cross_bracing_spacing <= ub.read.span_length =>
              params.cross_bracing_spacing = ub.read.cross_bracing_spacing

\* C13 witness: a bracing spacing of 45 m read against a span of 35 m,
\* clamped and written back
C13_Witness ==
    /\ ub.ran
    /\ ub.read.cross_bracing_spacing = 45000
    /\ ub.read.span_length = 35000
    /\ params.cross_bracing_spacing = 35000
    /\ w.bracing_spacing_input = 35000

\* a cross-section painted with its dimension labels
LabelledCrossSection ==
    /\ layout.view = "cross-section"
    /\ layout.raised = "no"

\* the value a two-decimal label of the parameter value_mm can print
ShowsParameter(label, value_mm) ==
    \E tieUp \in BOOLEAN : label = <<RoundGrid(value_mm, 10, tieUp)>>

\* C14 (as claimed; the code violates it): every dimension label of the
\* cross-section that is drawn shows the input parameter itself: the
\* footpath labels footpath_width, the overall-width label the deck total
\* width, the carriageway, overhang and girder spacing labels their
\* parameters, the thickness labels the thicknesses.
C14_LabelsShowParameters ==
    LabelledCrossSection =>
        /\ ShowsParameter(layout.labels.overall_width, R(layout.total_deck_width))
        /\ layout.labels.left_footpath # << >> =>
              ShowsParameter(layout.labels.left_footpath, R(params.footpath_width))
        /\ layout.labels.right_footpath # << >> =>
              ShowsParameter(layout.labels.right_footpath, R(params.footpath_width))
        /\ ShowsParameter(layout.labels.carriageway, R(params.carriageway_width))
        /\ layout.labels.overhang # << >> =>
              ShowsParameter(layout.labels.overhang, params.deck_overhang)
        /\ layout.labels.girder_spacing # << >> =>
              ShowsParameter(layout.labels.girder_spacing, params.girder_spacing)
        /\ layout.labels.footpath_thickness # << >> =>
              layout.labels.footpath_thickness = <<params.footpath_thickness>>
        /\ layout.labels.deck_thickness # << >> =>
              layout.labels.deck_thickness = <<params.deck_thickness>>

\* at most one call of update_bridge is past its guard, none was started by
\* a write of update_bridge itself, and _updating is false when no call is
\* on the stack
OneRunAtATime ==
    /\ Cardinality({i \in 1 .. Len(calls) : calls[i].pc # "guard"}) <= 1
    /\ \A i \in 1 .. Len(calls) : calls[i].from # "signal"
    /\ calls = << >> => ~updating

\* a call made while another is in progress returns at the guard and changes
\* nothing; a write-back of the body starts no call and keeps _last_changed;
\* a call that passed the guard leaves with _updating false
RunsToCompletion ==
    /\ (calls # << >> /\ Top.pc = "guard" /\ updating) =>
           /\ Len(calls') = Len(calls) - 1
           /\ UNCHANGED <<params, w, last_changed, updating, dirty>>
    /\ (calls # << >> /\ Top.pc = "body" /\ w' # w) =>
           /\ Len(calls') = Len(calls)
           /\ UNCHANGED last_changed
    /\ (calls # << >> /\ Top.pc # "guard" /\ Len(calls') < Len(calls)) =>
           ~updating'

\* C15: recomputations never interleave.  While one update_bridge is in
\* progress a further invocation returns without changing the parameters or
\* any input widget; the balancer's own writes to the spacing, overhang and
\* bracing inputs start no nested recompute and do not change _last_changed;
\* and _updating is false again after every exit of a run of update_bridge
\* that passed the guard, an exit by exception included.
C15_NoInterleaving == [](OneRunAtATime) /\ [][RunsToCompletion]_vars

\* C15 witness: a run that wrote back to the form, turned a nested call away
\* at the guard and was left by an exception, _updating false after it
C15_Witness ==
    /\ phase = "stepping"
    /\ calls = << >>
    /\ ub.ran
    /\ ub.exit = "raised"
    /\ ub.guarded = 1
    /\ ub.wrote
    /\ ~updating

\* the form the balancer was run on, read as update_bridge reads it
BalRead == ReadParams(arg.w)

\* the deck total width update_bridge computes for that form
BalDeckTotal == ComputeDeckTotalWidthMm(BalRead)[1]

\* x bounded to [lo, hi]
Clamped(x, lo, hi) == IF RLt(x, R(lo)) THEN R(lo) ELSE IF RLt(R(hi), x) THEN R(hi) ELSE x

\* more than 1 mm apart
FartherThan1(a, b) == RLt(R(1), RSub(a, b)) \/ RLt(R(1), RSub(b, a))

BalRequired ==
    IF BalRead.num_girders > 1
    THEN RDiv(RSub(R(BalDeckTotal),
                   RMul(BalRead.girder_spacing, R(BalRead.num_girders - 1))), R(2))
    ELSE RDiv(R(BalDeckTotal), R(2))

\* C17: spacing edit.  With edited field 'spacing', update_bridge computes
\* overhang' = clamp((deckTotal - girder_spacing*(n-1))/2, 300, 2000) for
\* n > 1 (from deckTotal/2 for n = 1) and replaces deck_overhang by overhang'
\* if and only if the change exceeds 1 mm; girder_spacing stays as entered.
C17_SpacingEdit ==
    (Len(bal) >= 1 /\ arg.tag = "spacing") =>
        LET overhang1 == Clamped(BalRequired, 300, 2000)
        IN  /\ bal[1].p.girder_spacing = BalRead.girder_spacing
            /\ bal[1].w.spacing_input = arg.w.spacing_input
            /\ bal[1].p.deck_overhang =
                  IF FartherThan1(overhang1, BalRead.deck_overhang)
                  THEN overhang1 ELSE BalRead.deck_overhang

\* C17 witness: a spacing edit that moves the overhang to the upper bound
\* (the balancing overhang 3125 being above it)
C17_Witness ==
    /\ Len(bal) >= 1
    /\ arg.tag = "spacing"
    /\ BalRead.num_girders = 4
    /\ BalDeckTotal = 14500
    /\ BalRead.girder_spacing = R(2750)
    /\ BalRead.deck_overhang = R(1000)
    /\ bal[1].p.deck_overhang = R(2000)
    /\ bal[1].w.deck_overhang_input = 2000

\* C18: other edit, out of range.  With edited field 'other', n > 1 and
\* required = (deckTotal - girder_spacing*(n-1))/2 below 300 (above 2000),
\* update_bridge sets deck_overhang to 300 (2000) and girder_spacing to
\* clamp((deckTotal - 2*300)/(n-1), 1000, 24000) (with 2*2000).
C18_OtherEditOutOfRange ==
    (Len(bal) >= 1 /\ arg.tag = "other" /\ BalRead.num_girders > 1) =>
        LET n == BalRead.num_girders
        IN  /\ RLt(BalRequired, R(300)) =>
                  /\ bal[1].p.deck_overhang = R(300)
                  /\ bal[1].p.girder_spacing
                       = Clamped(RDiv(R(BalDeckTotal - 2 * 300), R(n - 1)), 1000, 24000)
            /\ RLt(R(2000), BalRequired) =>
                  /\ bal[1].p.deck_overhang = R(2000)
                  /\ bal[1].p.girder_spacing
                       = Clamped(RDiv(R(BalDeckTotal - 2 * 2000), R(n - 1)), 1000, 24000)

\* C18 witness: twelve girders at 2.75 m on a deck of 5250: the overhang
\* pinned to 300, the spacing recomputed to 422.7 and bounded to 1000
C18_Witness ==
    /\ Len(bal) >= 1
    /\ arg.tag = "other"
    /\ BalRead.num_girders = 12
    /\ BalDeckTotal = 5250
    /\ BalRead.girder_spacing = R(2750)
    /\ bal[1].p.deck_overhang = R(300)
    /\ bal[1].p.girder_spacing = R(1000)

\* the overhang that balances what update_bridge read, n > 1
UbRequired ==
    RDiv(RSub(R(ub.deck_total),
              RMul(ub.read.girder_spacing, R(ub.read.num_girders - 1))), R(2))

\* C19 (as claimed; the code violates it): other edit, in range.  With
\* edited field 'other' and required = (deckTotal - girder_spacing*(n-1))/2
\* within [300, 2000], update_bridge sets deck_overhang to exactly required,
\* whatever the overhang was, and leaves girder_spacing unchanged.
C19_OtherEditInRange ==
    (ub.ran /\ ub.tag = "other" /\ ub.read.num_girders > 1
       /\ RLe(R(300), UbRequired) /\ RLe(UbRequired, R(2000))) =>
        /\ params.deck_overhang = UbRequired
        /\ params.girder_spacing = ub.read.girder_spacing

\* C20: one girder, the spacing is left alone.  With num_girders = 1 no
\* branch of update_bridge (edited field overhang, spacing or other) changes
\* girder_spacing or writes to the spacing input: the spacing handed to the
\* drawing widget is the spacing read from the form.
C20_SingleGirderSpacingKept ==
    (Len(bal) >= 1 /\ BalRead.num_girders = 1) =>
        /\ bal[1].p.girder_spacing = BalRead.girder_spacing
        /\ bal[1].w.spacing_input = arg.w.spacing_input

\* C20 witness: one girder, edited field 'other', the overhang moved to its
\* bound and the spacing of the form still in place
C20_Witness ==
    /\ Len(bal) >= 1
    /\ arg.tag = "other"
    /\ BalRead.num_girders = 1
    /\ BalRead.girder_spacing = R(2750)
    /\ BalRead.deck_overhang = R(1000)
    /\ bal[1].p.deck_overhang = R(2000)
    /\ bal[1].p.girder_spacing = R(2750)

\* a cross-section painted from parameters update_bridge balanced: n > 1, the
\* overhang within [300, 2000], the balance identity holding for the deck
\* width both update_bridge and the drawing use
BalancedCrossSection ==
    /\ LabelledCrossSection
    /\ ub.ran
    /\ params.num_girders > 1
    /\ layout.total_deck_width = ub.deck_total
    /\ RLe(R(300), params.deck_overhang)
    /\ RLe(params.deck_overhang, R(2000))
    /\ RLt(Imbalance(params, ub.deck_total), R(1))

\* C21 (as claimed; the code violates it): the girder clamp is a no-op on
\* balanced parameters.  Bounding each girder position of the cross-section
\* to [deckLeft + flangeHalf, deckRight - flangeHalf] changes no position:
\* the girders stay evenly spaced, the first at deckLeft + overhang*scale.
C21_ClampIsNoOp ==
    BalancedCrossSection =>
        /\ layout.positions = layout.nominal
        /\ layout.positions[1]
             = RAdd(layout.deck_left_x, RMul(params.deck_overhang, layout.scale))
        /\ \A i \in 1 .. layout.n - 2 :
              RSub(layout.positions[i + 1], layout.positions[i])
                = RSub(layout.positions[i + 2], layout.positions[i + 1])

\* the zones of the painted cross-section from left to right, each
\* <<start, end, real width in mm>>
Zones ==
    LET left_fp_width == IF params.footpath_config \in {"left", "both"}
                         THEN params.footpath_width ELSE 0
        right_fp_width == IF params.footpath_config \in {"right", "both"}
                          THEN params.footpath_width ELSE 0
        carriageway ==
            IF layout.median_present
            THEN << <<layout.carriageway_start_x, layout.median_start_x,
                      params.carriageway_width>>,
                    <<layout.median_start_x, layout.median_end_x, params.median_width>>,
                    <<layout.median_end_x, layout.carriageway_end_x,
                      params.carriageway_width>> >>
            ELSE << <<layout.carriageway_start_x, layout.carriageway_end_x,
                      params.carriageway_width>> >>
    IN  << <<layout.left_fp_x, layout.left_barrier_x, left_fp_width>>,
           <<layout.left_barrier_x, layout.left_barrier_end_x,
             params.crash_barrier_width>> >>
        \o carriageway
        \o << <<layout.right_barrier_x, layout.right_barrier_end_x,
                params.crash_barrier_width>>,
              <<layout.right_fp_x, layout.deck_right_x, right_fp_width>> >>

\* C22: the zones of the cross-section tile the deck.  For every footpath
\* configuration, with or without median, the zones left footpath, left
\* crash barrier, carriageway (or carriageway, median, carriageway), right
\* crash barrier, right footpath each are realWidth*scale wide, each starts
\* where the one before ends, the first starts at deckLeft and the last ends
\* at deckRight.
C22_ZonesTileDeck ==
    LabelledCrossSection =>
        /\ Len(Zones) = IF params.median_present THEN 7 ELSE 5
        /\ Zones[1][1] = layout.deck_left_x
        /\ Zones[Len(Zones)][2] = layout.deck_right_x
        /\ \A i \in 1 .. Len(Zones) :
              Zones[i][2] = RAdd(Zones[i][1], RMul(R(Zones[i][3]), layout.scale))
        /\ \A i \in 1 .. Len(Zones) - 1 : Zones[i + 1][1] = Zones[i][2]

\* a cross-section with a median and one footpath was painted
C22_Witness ==
    /\ LabelledCrossSection
    /\ params.median_present
    /\ params.footpath_config = "left"
    /\ params.footpath_width > 0

\* a cross-section painted with an empty allowed girder range
EmptyGirderRange ==
    /\ LabelledCrossSection
    /\ RLt(layout.max_allowed_x, layout.min_allowed_x)

\* the midpoint of a and b
Midpoint(a, b) == RDiv(RAdd(a, b), R(2))

\* C23 (as claimed; the code violates it): geometric degeneracy.  When the
\* allowed girder range is empty (minAllowedX > maxAllowedX), every girder
\* position is the midpoint of the allowed range or of the nominal range.
C23_CollapsedToMidpoint ==
    EmptyGirderRange =>
        \A i \in 1 .. layout.n :
            \/ layout.positions[i]
                 = Midpoint(layout.min_allowed_x, layout.max_allowed_x)
            \/ layout.positions[i]
                 = Midpoint(layout.nominal[1], layout.nominal[layout.n])

\* a view painted from a parameter dict with num_girders = 0
PaintedZeroGirders ==
    /\ layout.view # "none"
    /\ params.num_girders = 0

\* C24 (as claimed; the code violates it): when the widget receives
\* num_girders = 0, both views draw it as n = 1 and no paint raises: the
\* cross-section has exactly one girder, at the horizontal centre of the
\* deck; the top view has exactly one girder line, at the vertical centre,
\* and neither cross-bracing nor end diaphragm.
C24_ZeroGirdersAsOne ==
    PaintedZeroGirders =>
        /\ layout.raised = "no"
        /\ layout.view = "cross-section" =>
              /\ layout.n = 1
              /\ layout.positions
                   = <<Midpoint(layout.deck_left_x, layout.deck_right_x)>>
        /\ layout.view = "top-view" =>
              /\ Len(layout.girder_lines) = 1
              /\ layout.girder_lines[1].y = layout.center_y
              /\ layout.bracing_lines = << >>
              /\ layout.left_diaphragm = << >>
              /\ layout.right_diaphragm = << >>

\* the longitudinal run of a line per unit of transverse rise (its two ends
\* differ in y)
Run(line) == RDiv(RSub(line.x2, line.x1), RSub(line.y2, line.y1))

\* the point <<x, y>> lies on the straight line through the two ends of line
OnLineOf(x, y, line) ==
    RSub(x, line.x1) = RMul(RSub(y, line.y1), Run(line))

\* both ends of every bay line lie on the line through the ends of line
BaysOnLineOf(bays, line) ==
    \A i \in 1 .. Len(bays) :
        /\ OnLineOf(bays[i].x1, bays[i].y1, line)
        /\ OnLineOf(bays[i].x2, bays[i].y2, line)

\* line moved along the span so that it passes through <<x, y>>
MovedTo(line, x, y) ==
    [x1 |-> x, y1 |-> y,
     x2 |-> RAdd(x, RSub(line.x2, line.x1)),
     y2 |-> RAdd(y, RSub(line.y2, line.y1))]

\* C25: skew collinearity.  In the top view, for every skew angle and n, the
\* girder start points, the ends of the left end diaphragm and the two ends
\* of the left bearing line lie on one straight line, the same holds at the
\* right end, and the ends of each interior bracing line across all bays lie
\* on a line parallel to the bearing line.
C25_SkewCollinear ==
    layout.view = "top-view" =>
        /\ layout.left_bearing.y1 # layout.left_bearing.y2
        /\ \A i \in 1 .. Len(layout.girder_lines) :
              /\ OnLineOf(layout.girder_lines[i].x1, layout.girder_lines[i].y,
                          layout.left_bearing)
              /\ OnLineOf(layout.girder_lines[i].x2, layout.girder_lines[i].y,
                          layout.right_bearing)
        /\ BaysOnLineOf(layout.left_diaphragm, layout.left_bearing)
        /\ BaysOnLineOf(layout.right_diaphragm, layout.right_bearing)
        /\ \A s \in 1 .. Len(layout.bracing_lines) :
              BaysOnLineOf(layout.bracing_lines[s],
                           MovedTo(layout.left_bearing,
                                   layout.bracing_lines[s][1].x1,
                                   layout.bracing_lines[s][1].y1))

\* a skewed top view with three girders or more and an interior bracing line
C25_Witness ==
    /\ layout.view = "top-view"
    /\ params.skew_angle # 0
    /\ Len(layout.girder_lines) >= 3
    /\ Len(layout.left_diaphragm) >= 2
    /\ Len(layout.bracing_lines) >= 1
    /\ layout.girder_lines[2].x1 # layout.girder_lines[1].x1

\* the distance between girders i and i + 1 of the painted cross-section,
\* divided by the scale (mm)
DrawnSpacing(i) ==
    RDiv(RSub(layout.positions[i + 1], layout.positions[i]), layout.scale)

\* C26 (as claimed; the code violates it): drawing consistency.  After any
\* sequence of edits processed by update_bridge with n > 1, the distance
\* between adjacent girders drawn in the cross-section, divided by the
\* scale, equals within 1 mm the girder_spacing parameter, which the
\* 'Girder Spacing' label shows and the top view spaces its girder lines by.
C26_DrawnSpacingIsParameter ==
    (LabelledCrossSection /\ ub.ran /\ params.num_girders > 1) =>
        /\ \A i \in 1 .. layout.n - 1 :
              RLe(RAbs(RSub(DrawnSpacing(i), params.girder_spacing)), R(1))
        /\ ShowsParameter(layout.labels.girder_spacing, params.girder_spacing)

\* the first run, edited field 'other', wrote an auto-adjusted overhang or
\* spacing back to the input widgets, and a second 'other' run re-read them
WroteBackAndReRead ==
    /\ Len(bal) = 2
    /\ arg.tag = "other"
    /\ \/ bal[1].w.spacing_input # arg.w.spacing_input
       \/ bal[1].w.deck_overhang_input # arg.w.deck_overhang_input

\* C27 (as claimed; the code violates it): the widget round trip is a fixed
\* point.  After an 'other' update has auto-adjusted overhang and/or spacing
\* and written them to the input widgets (spacing rounded to 0.01 m,
\* overhang to 0.001 m), a further 'other' update that re-reads the inputs
\* produces the same deck_overhang and girder_spacing, whatever the deck
\* width and n.
C27_RoundTripFixedPoint ==
    WroteBackAndReRead =>
        /\ bal[2].p.deck_overhang = bal[1].p.deck_overhang
        /\ bal[2].p.girder_spacing = bal[1].p.girder_spacing

\* the drawing parameters the reset at program start establishes
StartParams == ResetDefaults(ConstructedGui, TRUE).params

\* reset_defaults has just returned
AfterReset ==
    /\ phase = "running"
    /\ ub.ran
    /\ ub.notice = "reset"

\* C28 (as claimed; the code violates it): reset is state-independent.
\* Whatever edits preceded it, after reset_defaults returns the drawing
\* parameters (girder_spacing, deck_overhang and median_present among them)
\* equal the ones the reset at program start established, and the
\* edited-field tag its recompute used is 'other'.
C28_ResetStateIndependent ==
    AfterReset =>
        /\ params = StartParams
        /\ ub.tag = "other"

\* C29 (as claimed; the code violates it): status notices.  A message set by
\* update_status is replaced by 'Status: Ready' only by the timer started
\* for that same message; the pending timer of an earlier message never
\* clears a later message set before that earlier timer fired.
C29_OwnTimerClears ==
    [][(status_label.serial # 0 /\ status_label'.serial = 0) =>
          /\ timers # << >>
          /\ timers[1] = status_label.serial
          /\ timers' = Tail(timers)]_vars

\* C30 (as claimed; the code violates it): hover stays consistent with the
\* layout.  At every repaint of the cross-section a non-negative
\* hovered_label_index is within the freshly rebuilt component list and
\* designates the component that was under the cursor at the last mouse
\* move, also when a parameter edit changed the component list in between.
C30_HoverDesignatesSame ==
    (LabelledCrossSection /\ hovered_label_index >= 0) =>
        /\ hovered_label_index < Len(layout.hover_labels)
        /\ layout.hover_labels[hovered_label_index + 1].name = under_cursor.name
        /\ layout.hover_labels[hovered_label_index + 1].part = under_cursor.part

====
